---- MODULE Spec2Model ----
(***************************************************************************)
(* Model of examples/secure-worker-api.py: the sliding-window RateLimiter  *)
(* and SecureWorkerAPI.execute_agent run by concurrent worker threads.     *)
(*                                                                         *)
(* Text is a sequence of one-character strings.  A message built by an     *)
(* f-string is the sequence of its pieces: [lit |-> s] for literal source  *)
(* text, [text |-> t] for an interpolated text, [num |-> n] for an         *)
(* interpolated number.  Time is in whole seconds, money in whole dollars. *)
(*                                                                         *)
(* Spec and FairSpec run execute_agent in concurrent threads; LimiterSpec  *)
(* and ConcurrentLimiterSpec drive a RateLimiter alone; SanitizeSpec and   *)
(* RedactSpec call sanitize_prompt and redact_secrets on bounded texts.    *)
(***************************************************************************)
EXTENDS Integers, Sequences, FiniteSets, TLC

(* ---------------------------------------------------------------- bounds *)
TickStep == 60
MaxTime == 60
MaxN == 3
MaxLog == 5
MaxNuls == 2
MaxText == 30
FineStep == 30
FineMaxTime == 90

(* ----------------------------------------------------- program constants *)
MAX_BUDGET_USD == 5
SESSION_TIMEOUT_SECONDS == 1800
RATE_LIMIT_PER_MINUTE == 10
WINDOW_SECONDS == 60
MAX_PROMPT_CHARS == 10000

Threads == {1, 2}
Users == {"u1", "u2"}
Budgets == {1, 10}
NoThread == 0

(* ------------------------------------------------------------------ text *)
NUL == "\\x00"

LowerLetters ==
  <<"a","b","c","d","e","f","g","h","i","j","k","l","m","n","o","p","q","r","s","t","u","v","w","x","y","z">>

UpperLetters ==
  <<"A","B","C","D","E","F","G","H","I","J","K","L","M","N","O","P","Q","R","S","T","U","V","W","X","Y","Z">>

\* the upper-case letters and their lower-case forms
LowerMap ==
  [c \in {UpperLetters[i] : i \in 1..26} |->
     LowerLetters[CHOOSE i \in 1..26 : UpperLetters[i] = c]]

\* str.lower() on one character
LowerChar(c) == IF c \in DOMAIN LowerMap THEN LowerMap[c] ELSE c

\* str.lower()
Lower(s) == [i \in 1..Len(s) |-> LowerChar(s[i])]

\* str.replace(ch, '')
RemoveChar(s, ch) == SelectSeq(s, LAMBDA c : c # ch)

\* the `in` operator on strings: pat occurs in s as a substring
Contains(s, pat) ==
  \E p \in 0..(Len(s) - Len(pat)) : \A i \in 1..Len(pat) : s[p + i] = pat[i]

Repeat(c, n) == [i \in 1..n |-> c]

(* ----------------------------------------------------------- RateLimiter *)
\* the window test off by one: a timestamp aged exactly the window is kept
PruneInclusive(reqs, t_now) == SelectSeq(reqs, LAMBDA t : t_now - t <= WINDOW_SECONDS)

\* line 32: [t for t in self.requests if now - t < 60]
Prune(reqs, t_now) == SelectSeq(reqs, LAMBDA t : t_now - t < WINDOW_SECONDS)

\* line 34: len(self.requests) >= self.max_requests
LimiterFull(reqs, max) == Len(reqs) >= max

(* ------------------------------------------------------- active_sessions *)
\* the membership test always failing
HasSessionNever(sessions, u) == FALSE

\* line 65: user_id in self.active_sessions
HasSession(sessions, u) == u \in DOMAIN sessions

\* the insert lost
PutSessionLost(sessions, u, t_now) == sessions

\* line 72: self.active_sessions[user_id] = time.time()
PutSession(sessions, u, t_now) ==
  [x \in DOMAIN sessions \cup {u} |-> IF x = u THEN t_now ELSE sessions[x]]

\* the entry left behind
PopSessionKept(sessions, u) == sessions

\* line 127: self.active_sessions.pop(user_id, None)
PopSession(sessions, u) == [x \in DOMAIN sessions \ {u} |-> sessions[x]]

EmptyMap == [x \in {} |-> 0]

\* the budget validation dropped
OverBudgetNever(b) == FALSE

\* line 57: budget > MAX_BUDGET_USD
OverBudget(b) == b > MAX_BUDGET_USD

(* ------------------------------------------------------- sanitize_prompt *)
\* lines 139-143
dangerous_patterns ==
  << <<"i","g","n","o","r","e"," ","p","r","e","v","i","o","u","s"," ","i","n","s","t","r","u","c","t","i","o","n","s">>,
     <<"d","i","s","r","e","g","a","r","d"," ","s","y","s","t","e","m"," ","p","r","o","m","p","t">>,
     <<"n","e","w"," ","i","n","s","t","r","u","c","t","i","o","n","s",":">> >>

Lit(s) == [lit |-> s]
Txt(t) == [text |-> t]
Num(n) == [num |-> n]

Returned(v) == [raised |-> FALSE, value |-> v]
Raised(type, msg) == [raised |-> TRUE, type |-> type, msg |-> msg]

\* lines 146-148: the first pattern of the list found in the lowered prompt
FirstPattern(prompt_lower) ==
  IF \E k \in 1..Len(dangerous_patterns) : Contains(prompt_lower, dangerous_patterns[k])
  THEN CHOOSE k \in 1..Len(dangerous_patterns) :
         /\ Contains(prompt_lower, dangerous_patterns[k])
         /\ \A j \in 1..(k - 1) : ~Contains(prompt_lower, dangerous_patterns[j])
  ELSE 0

\* the scan for the patterns on the prompt as written, not lowered
sanitize_prompt_CaseSensitive(prompt) ==
  LET stripped == RemoveChar(prompt, NUL)
      k == FirstPattern(stripped)
  IN  IF Len(stripped) > MAX_PROMPT_CHARS
      THEN Raised("ValueError", <<Lit("Prompt too long (max 10000 chars)")>>)
      ELSE IF k # 0
      THEN Raised("ValueError",
                  <<Lit("Prompt contains dangerous pattern: "), Txt(dangerous_patterns[k])>>)
      ELSE Returned(stripped)

\* the length limit applied to the text as received, NUL bytes counted
sanitize_prompt_RawLength(prompt) ==
  LET stripped == RemoveChar(prompt, NUL)
      k == FirstPattern(Lower(stripped))
  IN  IF Len(prompt) > MAX_PROMPT_CHARS
      THEN Raised("ValueError", <<Lit("Prompt too long (max 10000 chars)")>>)
      ELSE IF k # 0
      THEN Raised("ValueError",
                  <<Lit("Prompt contains dangerous pattern: "), Txt(dangerous_patterns[k])>>)
      ELSE Returned(stripped)

\* lines 129-150: returns the cleaned prompt or raises ValueError
sanitize_prompt(prompt) ==
  LET stripped == RemoveChar(prompt, NUL)
      k == FirstPattern(Lower(stripped))
  IN  IF Len(stripped) > MAX_PROMPT_CHARS
      THEN Raised("ValueError", <<Lit("Prompt too long (max 10000 chars)")>>)
      ELSE IF k # 0
      THEN Raised("ValueError",
                  <<Lit("Prompt contains dangerous pattern: "), Txt(dangerous_patterns[k])>>)
      ELSE Returned(stripped)

(* -------------------------------------------------------- subprocess.run *)
\* What the external agent does with one invocation: the launch fails with an
\* OSError carrying errtext, or the process runs for `duration` seconds and exits
\* with returncode, having written stdout and stderr.
Agent(launch_fails, errtext, duration, returncode, stdout, stderr) ==
  [launch_fails |-> launch_fails, errtext |-> errtext, duration |-> duration,
   returncode |-> returncode, stdout |-> stdout, stderr |-> stderr]

\* lines 89-99: subprocess.run(cmd, capture_output=True, text=True, timeout=...)
\* without check=True: a non-zero exit status is returned, not raised.
subprocess_run(agent, timeout) ==
  IF agent.launch_fails THEN Raised("OSError", agent.errtext)
  ELSE IF agent.duration > timeout THEN Raised("TimeoutExpired", <<>>)
  ELSE Returned([returncode |-> agent.returncode,
                 stdout |-> agent.stdout, stderr |-> agent.stderr])

\* line 101: result.stdout or result.stderr or 'No output'
OutputOf(result) ==
  IF result.stdout # <<>> THEN result.stdout
  ELSE IF result.stderr # <<>> THEN result.stderr
  ELSE <<"N","o"," ","o","u","t","p","u","t">>

(* ------------------------------------------------------------ the results *)
\* lines 51-54
RateLimitedResult ==
  [success |-> FALSE, error |-> <<Lit("Rate limit exceeded. Try again later.")>>]

\* lines 58-61
BudgetResult ==
  [success |-> FALSE, error |-> <<Lit("Budget exceeds maximum: $"), Num(MAX_BUDGET_USD)>>]

\* lines 66-69
BusyResult ==
  [success |-> FALSE, error |-> <<Lit("User already has an active session")>>]

\* lines 113-116
TimeoutResult ==
  [success |-> FALSE,
   error |-> <<Lit("Session timeout after "), Num(SESSION_TIMEOUT_SECONDS), Lit("s")>>]

\* lines 119-122: f'Execution error: {str(e)}'
ErrorResult(e) ==
  [success |-> FALSE, error |-> <<Lit("Execution error: ")>> \o e.msg]

\* the generic clause taking every exception
HandleExceptionGeneric(e) == ErrorResult(e)

\* lines 112-122: the except clauses, in their order
HandleException(e) ==
  IF e.type = "TimeoutExpired" THEN TimeoutResult ELSE ErrorResult(e)

(* ------------------------------------------------- re.sub, re.IGNORECASE *)
\* A pattern is a sequence of items.  An item is the word boundary \b, or a
\* character class repeated min..max times (max = -1: unbounded), greedy, with
\* backtracking.  Classes hold lowered characters: under re.IGNORECASE a
\* character matches when its lowered form is in the class.
Digits == {"0","1","2","3","4","5","6","7","8","9"}
Letters == {LowerLetters[i] : i \in 1..26}
Whitespace == {" ", "\t", "\n", "\r"}
WordChars == Letters \cup Digits \cup {"_"}

Cls(set, min, max) == [wb |-> FALSE, neg |-> FALSE, set |-> set, min |-> min, max |-> max]
NotCls(set, min, max) == [wb |-> FALSE, neg |-> TRUE, set |-> set, min |-> min, max |-> max]
WordBoundary == [wb |-> TRUE, neg |-> FALSE, set |-> {}, min |-> 0, max |-> 0]
Literal(text) == [i \in 1..Len(text) |-> Cls({LowerChar(text[i])}, 1, 1)]

ItemMatches(it, c) == (LowerChar(c) \in it.set) # it.neg

IsWordAt(s, p) == p >= 1 /\ p <= Len(s) /\ LowerChar(s[p]) \in WordChars

\* \b between s[pos] and s[pos + 1]
AtBoundary(s, pos) == IsWordAt(s, pos) # IsWordAt(s, pos + 1)

RECURSIVE RunFrom(_, _, _, _, _)
\* the item has taken k characters after pos: how many it takes, at most avail
RunFrom(it, s, pos, k, avail) ==
  IF k < avail /\ ItemMatches(it, s[pos + k + 1])
  THEN RunFrom(it, s, pos, k + 1, avail)
  ELSE k

\* how many characters after pos the item can take at most
RunLen(it, s, pos) ==
  RunFrom(it, s, pos, 0,
          IF it.max = -1 \/ it.max > Len(s) - pos THEN Len(s) - pos ELSE it.max)

RECURSIVE MatchEnd(_, _, _, _)
RECURSIVE TryTake(_, _, _, _, _)

\* the position where the match of items i.. that starts after pos ends, or -1
MatchEnd(re, i, s, pos) ==
  IF i > Len(re) THEN pos
  ELSE IF re[i].wb THEN (IF AtBoundary(s, pos) THEN MatchEnd(re, i + 1, s, pos) ELSE -1)
  ELSE TryTake(re, i, s, pos, RunLen(re[i], s, pos))

\* item i takes k characters; on failure of the rest it gives one back
TryTake(re, i, s, pos, k) ==
  IF k < re[i].min THEN -1
  ELSE LET r == MatchEnd(re, i + 1, s, pos + k)
       IN  IF r # -1 THEN r ELSE TryTake(re, i, s, pos, k - 1)

RECURSIVE SubFrom(_, _, _, _)
\* re.sub from position pos on: leftmost, non-overlapping matches replaced
SubFrom(re, repl, s, pos) ==
  IF pos >= Len(s) THEN <<>>
  ELSE LET e == MatchEnd(re, 1, s, pos)
       IN  IF e > pos THEN repl \o SubFrom(re, repl, s, e)
           ELSE <<s[pos + 1]>> \o SubFrom(re, repl, s, pos + 1)

RECURSIVE SubFirstFrom(_, _, _, _)
\* as SubFrom, but the text after the first match is left as it is
SubFirstFrom(re, repl, s, pos) ==
  IF pos >= Len(s) THEN <<>>
  ELSE LET e == MatchEnd(re, 1, s, pos)
       IN  IF e > pos THEN repl \o SubSeq(s, e + 1, Len(s))
           ELSE <<s[pos + 1]>> \o SubFirstFrom(re, repl, s, pos + 1)

\* the substitution made once (count=1), not for every match
re_sub_First(re, repl, s) == SubFirstFrom(re, repl, s, 0)

\* re.sub(pattern, replacement, text, flags=re.IGNORECASE)
re_sub(re, repl, s) == SubFrom(re, repl, s, 0)

(* -------------------------------------------------------- redact_secrets *)
\* the literal texts of lines 157-161
AKIA == <<"A","K","I","A">>
SECRETKEY == <<"a","w","s","_","s","e","c","r","e","t","_","a","c","c","e","s","s","_","k","e","y">>
PASSWORD == <<"p","a","s","s","w","o","r","d">>
TOKEN == <<"t","o","k","e","n">>
AWSKEY == <<"[","A","W","S","_","A","C","C","E","S","S","_","K","E","Y","]">>
SECRETKEY_REDACTED == <<"a","w","s","_","s","e","c","r","e","t","_","a","c","c","e","s","s","_","k","e","y","=","[","R","E","D","A","C","T","E","D","]">>
PASSWORD_REDACTED == <<"p","a","s","s","w","o","r","d","=","[","R","E","D","A","C","T","E","D","]">>
TOKEN_REDACTED == <<"t","o","k","e","n","=","[","R","E","D","A","C","T","E","D","]">>
EMAIL == <<"[","E","M","A","I","L","]">>

\* \s*=\s*\S+
AssignTail ==
  <<Cls(Whitespace, 0, -1), Cls({"="}, 1, 1), Cls(Whitespace, 0, -1), NotCls(Whitespace, 1, -1)>>

\* lines 156-162
redact_patterns ==
  << [re |-> Literal(AKIA) \o <<Cls(Digits \cup Letters, 16, 16)>>,
      repl |-> AWSKEY],
     [re |-> Literal(SECRETKEY) \o AssignTail,
      repl |-> SECRETKEY_REDACTED],
     [re |-> Literal(PASSWORD) \o AssignTail,
      repl |-> PASSWORD_REDACTED],
     [re |-> Literal(TOKEN) \o AssignTail,
      repl |-> TOKEN_REDACTED],
     [re |-> <<WordBoundary,
               Cls(Letters \cup Digits \cup {".", "_", "%", "+", "-"}, 1, -1),
               Cls({"@"}, 1, 1),
               Cls(Letters \cup Digits \cup {".", "-"}, 1, -1),
               Cls({"."}, 1, 1),
               Cls(Letters \cup {"|"}, 2, -1),
               WordBoundary>>,
      repl |-> EMAIL] >>

RECURSIVE ApplyRules(_, _, _)
\* lines 164-165: each rule over the result of the previous one
ApplyRules(rules, k, text) ==
  IF k > Len(rules) THEN text
  ELSE ApplyRules(rules, k + 1, re_sub(rules[k].re, rules[k].repl, text))

\* lines 152-167
redact_secrets(text) == ApplyRules(redact_patterns, 1, text)

\* lines 169-172: len(output) / 1000 * 0.01, in units of 0.00001 dollar
estimate_cost(output) == Len(output)

(* ---------------------------------------------------------------- inputs *)
\* The prompts the callers send: one the sanitizer passes, less its NUL bytes,
\* and two it rejects; a thread's state holds the index of its prompt.
Prompts ==
  << <<"S","u","m","m","a","r","i","z","e",NUL," ","R","E","A","D","M","E",NUL>>,
     <<"N", "e", "w", NUL, " ">> \o <<"i","n","s","t","r","u","c","t","i","o","n","s",":">>,
     Repeat("a", MAX_PROMPT_CHARS + 1) >>

\* The behaviours of the external agent.
AgentRuns ==
  { Agent(FALSE, <<>>, 1, 0, <<"p","a","s","s","w","o","r","d","=","h","u","n","t","e","r","2">>, <<>>),
    Agent(FALSE, <<>>, 1, 1, <<>>, <<"b","o","o","m">>),
    Agent(FALSE, <<>>, SESSION_TIMEOUT_SECONDS + 1, 0, <<>>, <<>>),
    Agent(TRUE, <<Lit("[Errno 2] No such file or directory: '/workspace'")>>, 0, 0, <<>>, <<>>) }

NoAgent == Agent(FALSE, <<>>, 0, 0, <<>>, <<>>)
NoResult == [success |-> FALSE, error |-> <<>>]
NoCmd == [prompt |-> <<>>, budget |-> 0]

\* lines 79-86: the parts of the command the caller's arguments decide
BuildCmd(sanitized_prompt, b) == [prompt |-> sanitized_prompt, budget |-> b]

\* lines 89-122: what execute_agent returns for a behaviour of the agent
RunResult(agent) ==
  LET r == subprocess_run(agent, SESSION_TIMEOUT_SECONDS)
  IN  IF r.raised
      THEN HandleException(r)
      ELSE LET safe_output == redact_secrets(OutputOf(r.value))
           IN  [success |-> TRUE, response |-> safe_output,
                cost |-> estimate_cost(safe_output)]

\* sanitize_prompt and RunResult on the inputs above, computed once
Sanitized == [p \in 1..Len(Prompts) |-> sanitize_prompt(Prompts[p])]
RunResults == [agent \in AgentRuns |-> RunResult(agent)]

(* ----------------------------------------------------------------- state *)
\* An argument of execute_agent gets its value in the step where the code first
\* reads it (budget at line 57, user_id at line 65, prompt at line 76): it is the
\* caller's free choice and nothing can observe it earlier.
VARIABLES
  now,              \* time.time()
  requests,         \* RateLimiter.requests
  max_requests,     \* RateLimiter.max_requests
  lock,             \* RateLimiter.lock: the thread holding it, or NoThread
  active_sessions,  \* SecureWorkerAPI.active_sessions
  session_lock,     \* SecureWorkerAPI.session_lock: the holder, or NoThread
  pc,               \* where each thread is
  prompt,           \* execute_agent's argument (index in Prompts, 0: not read yet)
  budget,           \* execute_agent's argument (0: not read yet)
  user_id,          \* execute_agent's argument ("": not read yet)
  lnow,             \* is_allowed's local `now`
  allowed,          \* is_allowed's return value
  cmd,              \* the command handed to subprocess.run
  ret,              \* execute_agent's return value
  outcome,          \* history: what the agent did in this call
  owner,            \* history: the thread whose call inserted each session entry
  slots,            \* history: the timestamps this call appended to the limiter
  log,              \* history: the is_allowed calls of a directly driven limiter
  arg,              \* the text given to a method that is called directly
  results           \* what the successive direct calls of the method returned

vars == <<now, requests, max_requests, lock, active_sessions, session_lock, pc, prompt,
          budget, user_id, lnow, allowed, cmd, ret, outcome, owner, slots, log,
          arg, results>>

limiterVars == <<requests, max_requests, lock, lnow, allowed, slots, log>>
sessionVars == <<active_sessions, session_lock, owner>>
argVars == <<prompt, budget, user_id>>
directVars == <<arg, results>>

\* lines 23-26 and 41-44
Init ==
  /\ now = 0
  /\ requests = <<>>
  /\ max_requests = RATE_LIMIT_PER_MINUTE
  /\ lock = NoThread
  /\ active_sessions = EmptyMap
  /\ session_lock = NoThread
  /\ pc = [t \in Threads |-> "idle"]
  /\ prompt = [t \in Threads |-> 0]
  /\ budget = [t \in Threads |-> 0]
  /\ user_id = [t \in Threads |-> ""]
  /\ lnow = [t \in Threads |-> 0]
  /\ allowed = [t \in Threads |-> FALSE]
  /\ cmd = [t \in Threads |-> NoCmd]
  /\ ret = [t \in Threads |-> NoResult]
  /\ outcome = [t \in Threads |-> NoAgent]
  /\ owner = EmptyMap
  /\ slots = [t \in Threads |-> 0]
  /\ log = <<>>
  /\ arg = <<>>
  /\ results = <<>>

(* ---------------------------------------------------------------- actions *)
\* the clock advances
Tick ==
  /\ now + TickStep <= MaxTime
  /\ now' = now + TickStep
  /\ UNCHANGED <<requests, max_requests, lock, active_sessions, session_lock, pc, prompt,
                 budget, user_id, lnow, allowed, cmd, ret, outcome, owner, slots, log,
                 directVars>>

\* line 46: a worker thread enters execute_agent; line 50 calls is_allowed
Call(t) ==
  /\ pc[t] = "idle"
  /\ pc' = [pc EXCEPT ![t] = "lim_lock"]
  /\ UNCHANGED <<now, limiterVars, sessionVars, argVars, cmd, ret, outcome, directVars>>

\* the clock read and the list pruned without waiting for the lock
LimEnterNoLock(t) ==
  /\ pc[t] = "lim_lock"
  /\ lock' = t
  /\ lnow' = [lnow EXCEPT ![t] = now]
  /\ requests' = Prune(requests, now)
  /\ pc' = [pc EXCEPT ![t] = "lim_check"]
  /\ UNCHANGED <<now, max_requests, allowed, slots, log,
                 sessionVars, argVars, cmd, ret, outcome, directVars>>

\* lines 29-32: with self.lock, read the clock, prune
LimEnter(t) ==
  /\ pc[t] = "lim_lock"
  /\ lock = NoThread
  /\ lock' = t
  /\ lnow' = [lnow EXCEPT ![t] = now]
  /\ requests' = Prune(requests, now)
  /\ pc' = [pc EXCEPT ![t] = "lim_check"]
  /\ UNCHANGED <<now, max_requests, allowed, slots, log,
                 sessionVars, argVars, cmd, ret, outcome, directVars>>

\* lines 34-35
LimCheck(t) ==
  /\ pc[t] = "lim_check"
  /\ IF LimiterFull(requests, max_requests)
     THEN /\ allowed' = [allowed EXCEPT ![t] = FALSE]
          /\ lock' = NoThread
          /\ pc' = [pc EXCEPT ![t] = "lim_ret"]
     ELSE /\ pc' = [pc EXCEPT ![t] = "lim_append"]
          /\ UNCHANGED <<allowed, lock>>
  /\ UNCHANGED <<now, requests, max_requests, lnow, slots, log,
                 sessionVars, argVars, cmd, ret, outcome, directVars>>

\* the timestamp appended and the limiter lock never released
LimAppendKeepsLock(t) ==
  /\ pc[t] = "lim_append"
  /\ requests' = Append(requests, lnow[t])
  /\ slots' = [slots EXCEPT ![t] = slots[t] + 1]
  /\ allowed' = [allowed EXCEPT ![t] = TRUE]
  /\ pc' = [pc EXCEPT ![t] = "lim_ret"]
  /\ UNCHANGED <<now, max_requests, lock, lnow, log, sessionVars, argVars, cmd, ret, outcome,
                 directVars>>

\* lines 37-38
LimAppend(t) ==
  /\ pc[t] = "lim_append"
  /\ requests' = Append(requests, lnow[t])
  /\ slots' = [slots EXCEPT ![t] = slots[t] + 1]
  /\ allowed' = [allowed EXCEPT ![t] = TRUE]
  /\ lock' = NoThread
  /\ pc' = [pc EXCEPT ![t] = "lim_ret"]
  /\ UNCHANGED <<now, max_requests, lnow, log, sessionVars, argVars, cmd, ret, outcome,
                 directVars>>

\* lines 49-61: the rate-limit gate, then the budget validation
Gate(t, b) ==
  /\ pc[t] = "lim_ret"
  /\ IF ~allowed[t]
     THEN /\ ret' = [ret EXCEPT ![t] = RateLimitedResult]
          /\ pc' = [pc EXCEPT ![t] = "done"]
          /\ UNCHANGED budget
     ELSE /\ budget' = [budget EXCEPT ![t] = b]
          /\ IF OverBudget(b)
             THEN /\ ret' = [ret EXCEPT ![t] = BudgetResult]
                  /\ pc' = [pc EXCEPT ![t] = "done"]
             ELSE /\ pc' = [pc EXCEPT ![t] = "sess_lock"]
                  /\ UNCHANGED ret
  /\ lnow' = [lnow EXCEPT ![t] = 0]
  /\ allowed' = [allowed EXCEPT ![t] = FALSE]
  /\ UNCHANGED <<now, requests, max_requests, lock, slots, log,
                 sessionVars, prompt, user_id, cmd, outcome, directVars>>

\* the busy return taken inside the try block: its finally pops the entry
SessCheckPops(t, u) ==
  /\ pc[t] = "sess_lock"
  /\ session_lock = NoThread
  /\ user_id' = [user_id EXCEPT ![t] = u]
  /\ IF HasSession(active_sessions, u)
     THEN /\ ret' = [ret EXCEPT ![t] = BusyResult]
          /\ pc' = [pc EXCEPT ![t] = "done"]
          /\ active_sessions' = PopSession(active_sessions, u)
          /\ owner' = PopSession(owner, u)
          /\ UNCHANGED session_lock
     ELSE /\ session_lock' = t
          /\ pc' = [pc EXCEPT ![t] = "sess_mark"]
          /\ UNCHANGED <<ret, active_sessions, owner>>
  /\ UNCHANGED <<now, limiterVars, prompt, budget, cmd, outcome, directVars>>

\* lines 64-69: with self.session_lock, the check for an active session
SessCheck(t, u) ==
  /\ pc[t] = "sess_lock"
  /\ session_lock = NoThread
  /\ user_id' = [user_id EXCEPT ![t] = u]
  /\ IF HasSession(active_sessions, u)
     THEN /\ ret' = [ret EXCEPT ![t] = BusyResult]
          /\ pc' = [pc EXCEPT ![t] = "done"]
          /\ UNCHANGED session_lock
     ELSE /\ session_lock' = t
          /\ pc' = [pc EXCEPT ![t] = "sess_mark"]
          /\ UNCHANGED ret
  /\ UNCHANGED <<now, limiterVars, active_sessions, owner, prompt, budget, cmd, outcome,
                 directVars>>

\* the entry inserted and the lock never released
SessMarkKeepsLock(t) ==
  /\ pc[t] = "sess_mark"
  /\ active_sessions' = PutSession(active_sessions, user_id[t], now)
  /\ owner' = PutSession(owner, user_id[t], t)
  /\ pc' = [pc EXCEPT ![t] = "try"]
  /\ UNCHANGED <<now, limiterVars, session_lock, argVars, cmd, ret, outcome, directVars>>

\* line 72
SessMark(t) ==
  /\ pc[t] = "sess_mark"
  /\ active_sessions' = PutSession(active_sessions, user_id[t], now)
  /\ owner' = PutSession(owner, user_id[t], t)
  /\ session_lock' = NoThread
  /\ pc' = [pc EXCEPT ![t] = "try"]
  /\ UNCHANGED <<now, limiterVars, argVars, cmd, ret, outcome, directVars>>

\* lines 74-99: sanitize, build the command, enter subprocess.run
Sanitize(t, p) ==
  /\ pc[t] = "try"
  /\ prompt' = [prompt EXCEPT ![t] = p]
  /\ LET r == Sanitized[p]
     IN  IF r.raised
         THEN /\ ret' = [ret EXCEPT ![t] = HandleException(r)]
              /\ pc' = [pc EXCEPT ![t] = "finally"]
              /\ UNCHANGED cmd
         ELSE /\ cmd' = [cmd EXCEPT ![t] = BuildCmd(r.value, budget[t])]
              /\ pc' = [pc EXCEPT ![t] = "running"]
              /\ UNCHANGED ret
  /\ UNCHANGED <<now, limiterVars, sessionVars, budget, user_id, outcome, directVars>>

\* a failed invocation run again with the same command
RunEndRetries(t, agent) ==
  /\ pc[t] = "running"
  /\ ret' = [ret EXCEPT ![t] = RunResults[agent]]
  /\ outcome' = [outcome EXCEPT ![t] = agent]
  /\ IF RunResults[agent].success
     THEN /\ cmd' = [cmd EXCEPT ![t] = NoCmd]
          /\ pc' = [pc EXCEPT ![t] = "finally"]
     ELSE UNCHANGED <<cmd, pc>>
  /\ UNCHANGED <<now, limiterVars, sessionVars, argVars, directVars>>

\* lines 89-122: subprocess.run ends; the result is built or the exception handled
RunEnd(t, agent) ==
  /\ pc[t] = "running"
  /\ ret' = [ret EXCEPT ![t] = RunResults[agent]]
  /\ outcome' = [outcome EXCEPT ![t] = agent]
  /\ cmd' = [cmd EXCEPT ![t] = NoCmd]
  /\ pc' = [pc EXCEPT ![t] = "finally"]
  /\ UNCHANGED <<now, limiterVars, sessionVars, argVars, directVars>>

\* lines 124-127: finally, with self.session_lock, pop the entry; then return
Finally(t) ==
  /\ pc[t] = "finally"
  /\ session_lock = NoThread
  /\ active_sessions' = PopSession(active_sessions, user_id[t])
  /\ owner' = PopSession(owner, user_id[t])
  /\ pc' = [pc EXCEPT ![t] = "done"]
  /\ UNCHANGED <<now, limiterVars, session_lock, argVars, cmd, ret, outcome, directVars>>

\* the caller takes the returned value; the thread is free for the next request
Return(t) ==
  /\ pc[t] = "done"
  /\ pc' = [pc EXCEPT ![t] = "idle"]
  /\ prompt' = [prompt EXCEPT ![t] = 0]
  /\ budget' = [budget EXCEPT ![t] = 0]
  /\ user_id' = [user_id EXCEPT ![t] = ""]
  /\ ret' = [ret EXCEPT ![t] = NoResult]
  /\ outcome' = [outcome EXCEPT ![t] = NoAgent]
  /\ slots' = [slots EXCEPT ![t] = 0]
  /\ UNCHANGED <<now, requests, max_requests, lock, lnow, allowed, log, sessionVars, cmd,
                 directVars>>

Next ==
  \/ Tick
  \/ \E t \in Threads :
       \/ Call(t)
       \/ LimEnter(t)
       \/ LimCheck(t)
       \/ LimAppend(t)
       \/ \E b \in Budgets : Gate(t, b)
       \/ \E u \in Users : SessCheck(t, u)
       \/ SessMark(t)
       \/ \E p \in 1..Len(Prompts) : Sanitize(t, p)
       \/ \E agent \in AgentRuns : RunEnd(t, agent)
       \/ Finally(t)
       \/ Return(t)

Spec == Init /\ [][Next]_vars

(* ------------------------------------------- a RateLimiter driven directly *)
\* line 23: RateLimiter(max_requests_per_minute), any threshold
LimInit ==
  /\ now = 0
  /\ requests = <<>>
  /\ max_requests \in 1..MaxN
  /\ lock = NoThread
  /\ active_sessions = EmptyMap
  /\ session_lock = NoThread
  /\ pc = [t \in Threads |-> "idle"]
  /\ prompt = [t \in Threads |-> 0]
  /\ budget = [t \in Threads |-> 0]
  /\ user_id = [t \in Threads |-> ""]
  /\ lnow = [t \in Threads |-> 0]
  /\ allowed = [t \in Threads |-> FALSE]
  /\ cmd = [t \in Threads |-> NoCmd]
  /\ ret = [t \in Threads |-> NoResult]
  /\ outcome = [t \in Threads |-> NoAgent]
  /\ owner = EmptyMap
  /\ slots = [t \in Threads |-> 0]
  /\ log = <<>>
  /\ arg = <<>>
  /\ results = <<>>

\* line 28: a thread calls is_allowed, one call after the other
DirectCall(t) ==
  /\ \A s \in Threads : pc[s] = "idle"
  /\ Len(log) < MaxLog
  /\ pc' = [pc EXCEPT ![t] = "lim_lock"]
  /\ UNCHANGED <<now, limiterVars, sessionVars, argVars, cmd, ret, outcome, directVars>>

\* is_allowed has returned: the call's time and answer are logged
DirectReturn(t) ==
  /\ pc[t] = "lim_ret"
  /\ log' = Append(log, [at |-> lnow[t], ok |-> allowed[t]])
  /\ lnow' = [lnow EXCEPT ![t] = 0]
  /\ allowed' = [allowed EXCEPT ![t] = FALSE]
  /\ slots' = [slots EXCEPT ![t] = 0]
  /\ pc' = [pc EXCEPT ![t] = "idle"]
  /\ UNCHANGED <<now, requests, max_requests, lock, sessionVars, argVars, cmd, ret, outcome,
                 directVars>>

LimNext ==
  \/ Tick
  \/ \E t \in Threads :
       \/ DirectCall(t)
       \/ LimEnter(t)
       \/ LimCheck(t)
       \/ LimAppend(t)
       \/ DirectReturn(t)

LimiterSpec == LimInit /\ [][LimNext]_vars

(* ------------------------------- a RateLimiter called by threads at once *)
\* the clock advances by a part of the window
Elapse ==
  /\ now + FineStep <= FineMaxTime
  /\ now' = now + FineStep
  /\ UNCHANGED <<requests, max_requests, lock, active_sessions, session_lock, pc, prompt,
                 budget, user_id, lnow, allowed, cmd, ret, outcome, owner, slots, log,
                 directVars>>

\* line 28: a thread calls is_allowed, whatever the other threads are doing
ConcurrentCall(t) ==
  /\ pc[t] = "idle"
  /\ Len(log) + Cardinality({s \in Threads : pc[s] # "idle"}) < MaxLog
  /\ pc' = [pc EXCEPT ![t] = "lim_lock"]
  /\ UNCHANGED <<now, limiterVars, sessionVars, argVars, cmd, ret, outcome, directVars>>

ConcurrentNext ==
  \/ Elapse
  \/ \E t \in Threads :
       \/ ConcurrentCall(t)
       \/ LimEnter(t)
       \/ LimCheck(t)
       \/ LimAppend(t)
       \/ DirectReturn(t)

ConcurrentLimiterSpec == LimInit /\ [][ConcurrentNext]_vars

(* -------------------------------------- sanitize_prompt called directly *)
\* lines 23-26 and 41-44: the limiter and the API as constructed, no call made
ApiIdle ==
  /\ now = 0
  /\ requests = <<>>
  /\ max_requests = RATE_LIMIT_PER_MINUTE
  /\ lock = NoThread
  /\ active_sessions = EmptyMap
  /\ session_lock = NoThread
  /\ pc = [t \in Threads |-> "idle"]
  /\ prompt = [t \in Threads |-> 0]
  /\ budget = [t \in Threads |-> 0]
  /\ user_id = [t \in Threads |-> ""]
  /\ lnow = [t \in Threads |-> 0]
  /\ allowed = [t \in Threads |-> FALSE]
  /\ cmd = [t \in Threads |-> NoCmd]
  /\ ret = [t \in Threads |-> NoResult]
  /\ outcome = [t \in Threads |-> NoAgent]
  /\ owner = EmptyMap
  /\ slots = [t \in Threads |-> 0]
  /\ log = <<>>

\* The texts a prompt is built around: harmless ones, the denylisted phrases in
\* mixed letter case and split by NUL bytes, and two near misses.
PromptCores ==
  { <<"S","u","m","m","a","r","i","z","e"," ","R","E","A","D","M","E">>,
    <<>>,
    <<NUL, "o", "k", NUL>>,
    <<"I","G","N","O","R","E"," ","P","r","e","v","i","o","u","s"," ","i","n","s","t","r","u","c","t","i","o","n","S">>,
    <<"d","i","s","r","e",NUL,"g","a","r","d"," ","S","Y","S",NUL,NUL,"T","E","M"," ","p","r","o","m","p","t">>,
    <<"N","e","w",NUL," ","I","n","s","t","r","u","c","t","i","o","n","s",":">>,
    <<"n","e","w"," ","i","n","s","t","r","u","c","t","i","o","n","s">>,
    <<"i","g","n","o","r","e"," "," ","p","r","e","v","i","o","u","s"," ","i","n","s","t","r","u","c","t","i","o","n","s">> }

\* the lengths, NUL bytes not counted, a prompt around core is given: the core
\* alone, and the lengths around the limit of line 135
PromptLengths(core) ==
  {Len(RemoveChar(core, NUL)), MAX_PROMPT_CHARS - 1, MAX_PROMPT_CHARS, MAX_PROMPT_CHARS + 1}

\* the prompt of `total` characters other than NUL: the core inside filler text,
\* followed by `nuls` NUL bytes
PromptAround(core, total, nuls) ==
  LET fill == total - Len(RemoveChar(core, NUL))
  IN  Repeat("z", fill \div 2) \o core \o Repeat(NUL, nuls) \o Repeat("z", fill - fill \div 2)

SanitizeInit ==
  /\ ApiIdle
  /\ \E core \in PromptCores : \E total \in PromptLengths(core) : \E nuls \in 0..MaxNuls :
       arg = PromptAround(core, total, nuls)
  /\ results = <<>>

\* line 129: sanitize_prompt(arg) is called
SanitizeCall ==
  /\ results = <<>>
  /\ results' = <<sanitize_prompt(arg)>>
  /\ UNCHANGED <<now, limiterVars, sessionVars, argVars, pc, cmd, ret, outcome, arg>>

SanitizeNext == SanitizeCall

SanitizeSpec == SanitizeInit /\ [][SanitizeNext]_vars

(* --------------------------------------- redact_secrets called directly *)
\* What the texts to redact are made of: the keys of the assignment rules, an
\* access key, an e-mail address, and what stands between them.
TextPieces ==
  { <<>>,
    PASSWORD,
    <<"T","o","k","e","n">>,
    SECRETKEY,
    <<"=">>,
    <<" ">>,
    <<"h","u","n","t","e","r","2">>,
    <<"a","@","b",".","c","o">>,
    AKIA \o <<"0","1","2","3","4","5","6","7","8","9","A","B","C","D","E","F">> }

\* the texts of up to five pieces, of at most MaxText characters
RedactInputs ==
  { x \in { a \o b \o c \o d \o e : a, b, c, d, e \in TextPieces } : Len(x) <= MaxText }

RedactInit ==
  /\ ApiIdle
  /\ arg \in RedactInputs
  /\ results = <<>>

\* line 152: redact_secrets is called, on arg and then on what it returned
RedactCall ==
  /\ Len(results) < Len(<<arg, arg>>)
  /\ results' = Append(results,
                       redact_secrets(IF results = <<>> THEN arg ELSE results[Len(results)]))
  /\ UNCHANGED <<now, limiterVars, sessionVars, argVars, pc, cmd, ret, outcome, arg>>

RedactNext == RedactCall

RedactSpec == RedactInit /\ [][RedactNext]_vars

(* -------------------------------------------------------------- fairness *)
\* the steps that wait for a lock
LockStep(t) ==
  \/ LimEnter(t)
  \/ \E u \in Users : SessCheck(t, u)
  \/ Finally(t)

\* the steps that wait for nothing but the thread's own progress, and the end
\* of subprocess.run
Progress(t) ==
  \/ LimCheck(t)
  \/ LimAppend(t)
  \/ \E b \in Budgets : Gate(t, b)
  \/ SessMark(t)
  \/ \E p \in 1..Len(Prompts) : Sanitize(t, p)
  \/ \E agent \in AgentRuns : RunEnd(t, agent)

\* Every thread inside execute_agent keeps running; a thread waiting for a lock
\* gets it when the lock is free again and again (the critical sections are
\* short and never block); subprocess.run returns, by its timeout at the latest.
\* Nothing obliges a caller to call, the clock to advance, or the caller to
\* come back for another request.
Fairness ==
  \A t \in Threads :
    /\ SF_vars(LockStep(t))
    /\ WF_vars(Progress(t))

FairSpec == Init /\ [][Next]_vars /\ Fairness

(* ---------------------------------------------------------------- claims *)
\* a request is in flight from its insert into active_sessions (line 72) to its
\* removal of the entry (line 127)
InFlight(t) == pc[t] \in {"try", "running", "finally"}

\* C1: session exclusivity: in every reachable state no two requests in flight
\* are for the same caller identity.
C1_SessionExclusive ==
  \A t1, t2 \in Threads :
    (t1 # t2 /\ InFlight(t1) /\ InFlight(t2)) => user_id[t1] # user_id[t2]

\* C1 witness: a request is blocked in the agent while a concurrent request for
\* the same identity has come back rejected.
C1_Witness ==
  \E t1, t2 \in Threads :
    /\ pc[t1] = "running" /\ pc[t2] = "done"
    /\ user_id[t2] = user_id[t1] /\ ret[t2] = BusyResult

\* C2: release on every exit path: when a call has returned, active_sessions
\* holds no entry that this call inserted.
C2_ReleasedOnReturn ==
  \A t \in Threads :
    pc[t] = "done" => \A u \in DOMAIN active_sessions : owner[u] # t

\* C2 witness: a call that held the session and whose agent invocation raised
\* has returned, and its identity has no entry.
C2_Witness ==
  \E t \in Threads :
    /\ pc[t] = "done"
    /\ outcome[t].launch_fails
    /\ ~HasSession(active_sessions, user_id[t])

\* C3: a request that reaches the session check while another request for the
\* same identity is in flight returns SessionBusy in that very step, leaving the
\* registry as it was; with no request in flight for the identity it acquires
\* (takes the lock and next inserts its entry).
C3_BusyOrAcquire ==
  [][\A t \in Threads :
       /\ (pc[t] = "sess_lock" /\ pc'[t] # "sess_lock") =>
            IF \E s \in Threads \ {t} : InFlight(s) /\ user_id[s] = user_id'[t]
            THEN /\ pc'[t] = "done" /\ ret'[t] = BusyResult
                 /\ active_sessions' = active_sessions
            ELSE pc'[t] = "sess_mark"
       /\ (pc[t] = "sess_mark" /\ pc'[t] # "sess_mark") =>
            /\ InFlight(t)'
            /\ HasSession(active_sessions', user_id[t])
            /\ owner'[user_id[t]] = t]_vars

\* C3 witness: a request holds an identity that another request held and has
\* released.
C3_Witness ==
  \E t, s \in Threads :
    /\ InFlight(t) /\ pc[s] = "done"
    /\ user_id[s] = user_id[t]
    /\ ret[s].success

ReasonOf(r) ==
  IF r.success THEN "Success"
  ELSE IF r.error = <<>> THEN "None"
  ELSE IF r.error[1] = Lit("Rate limit exceeded. Try again later.") THEN "RateLimited"
  ELSE IF r.error[1] = Lit("Budget exceeds maximum: $") THEN "BudgetExceeded"
  ELSE IF r.error[1] = Lit("User already has an active session") THEN "SessionBusy"
  ELSE IF r.error[1] = Lit("Session timeout after ") THEN "Timeout"
  ELSE IF r.error[1] = Lit("Execution error: ") THEN "ExecutionError"
  ELSE "Unknown"

\* the agent was invoked in thread t's call and subprocess.run has ended
Ran(t) == pc[t] = "done" /\ outcome[t] # NoAgent

\* C5 as claimed: a request whose budget exceeds the maximum returns
\* BudgetExceeded and has recorded no timestamp in the limiter.
C5_NoSlotConsumed ==
  \A t \in Threads :
    (pc[t] = "done" /\ budget[t] > MAX_BUDGET_USD) =>
      (ret[t] = BudgetResult /\ slots[t] = 0)

\* C5 amended: a request whose budget exceeds the maximum and that the limiter
\* admitted returns BudgetExceeded, having recorded exactly one timestamp in the
\* limiter (the limiter gate runs before the budget check) and no session entry.
C5_SlotConsumedFirst ==
  \A t \in Threads :
    (pc[t] = "done" /\ budget[t] > MAX_BUDGET_USD) =>
      /\ ret[t] = BudgetResult
      /\ slots[t] = 1
      /\ \A u \in DOMAIN owner : owner[u] # t

\* C5 witness: an over-budget request has returned and its timestamp is in the
\* limiter.
C5_Witness ==
  \E t \in Threads :
    /\ pc[t] = "done" /\ budget[t] > MAX_BUDGET_USD
    /\ ret[t] = BudgetResult
    /\ slots[t] = 1 /\ Len(requests) >= 1

\* C6 as claimed: when the agent was run and did not time out, the result is a
\* Success exactly when the agent terminated normally (launched, exit status
\* 0), and an ExecutionError failure otherwise.
C6_AbnormalExitFails ==
  \A t \in Threads :
    (Ran(t) /\ ~(outcome[t].duration > SESSION_TIMEOUT_SECONDS)) =>
      IF ~outcome[t].launch_fails /\ outcome[t].returncode = 0
      THEN ret[t].success
      ELSE ReasonOf(ret[t]) = "ExecutionError"

\* C7: when the agent invocation exceeds the session deadline the call returns
\* the Timeout failure, not ExecutionError, and no session entry of this call is
\* left in active_sessions.
C7_TimeoutReported ==
  \A t \in Threads :
    (Ran(t) /\ ~outcome[t].launch_fails
       /\ outcome[t].duration > SESSION_TIMEOUT_SECONDS) =>
      /\ ReasonOf(ret[t]) = "Timeout"
      /\ ret[t] = TimeoutResult
      /\ \A u \in DOMAIN active_sessions : owner[u] # t

\* C7 witness: a call has returned the timeout failure and its identity has no
\* session entry.
C7_Witness ==
  \E t \in Threads :
    /\ Ran(t) /\ outcome[t].duration > SESSION_TIMEOUT_SECONDS
    /\ ret[t] = TimeoutResult
    /\ ~HasSession(active_sessions, user_id[t])

\* C8 as claimed: a request whose prompt the sanitizer rejects ends in a failure
\* whose reason is InvalidPrompt (so not the ExecutionError reason).
C8_InvalidPromptReason ==
  \A t \in Threads :
    (pc[t] = "done" /\ prompt[t] # 0 /\ Sanitized[prompt[t]].raised) =>
      ReasonOf(ret[t]) = "InvalidPrompt"

\* C9: every request that has entered execute_agent eventually has returned
\* one terminal result, Success or a Failure with one of the reasons, with no
\* session entry of its own left; and every entry of active_sessions belongs to
\* a request still in flight, so no identity stays in active_sessions forever.
C9_Terminates ==
  /\ [](\A u \in DOMAIN active_sessions : InFlight(owner[u]) /\ user_id[owner[u]] = u)
  /\ \A t \in Threads :
       (pc[t] # "idle") ~>
         /\ pc[t] = "done"
         /\ ReasonOf(ret[t]) \in {"Success", "RateLimited", "BudgetExceeded",
                                  "SessionBusy", "Timeout", "ExecutionError"}
         /\ \A u \in DOMAIN active_sessions : owner[u] # t

\* C9 witness: a request whose prompt was rejected inside the try block has
\* returned a failure, its identity free.
C9_Witness ==
  \E t \in Threads :
    /\ pc[t] = "done" /\ prompt[t] # 0
    /\ Sanitized[prompt[t]].raised
    /\ ~ret[t].success
    /\ ~HasSession(active_sessions, user_id[t])

\* C10 as claimed: the message of an ExecutionError failure never carries the
\* raw text of the exception that subprocess.run raised.
C10_MessageSanitized ==
  \A t \in Threads :
    (Ran(t) /\ outcome[t].launch_fails /\ ReasonOf(ret[t]) = "ExecutionError") =>
      ~Contains(ret[t].error, outcome[t].errtext)

\* the error of line 136
TooLong == Raised("ValueError", <<Lit("Prompt too long (max 10000 chars)")>>)

\* text holds a denylisted phrase as a substring, in any letter case
HasPhrase(text) ==
  \E k \in 1..Len(dangerous_patterns) :
    \E p \in 0..(Len(text) - Len(dangerous_patterns[k])) :
      \A i \in 1..Len(dangerous_patterns[k]) :
        LowerChar(text[p + i]) = dangerous_patterns[k][i]

\* C11 as claimed: sanitize_prompt fails iff the NUL-stripped text is longer
\* than the maximum, and returns exactly the NUL-stripped text when that text is
\* within the maximum and holds no denylisted phrase.
C11_FailsIffTooLong ==
  results # <<>> =>
    LET stripped == RemoveChar(arg, NUL)
    IN  /\ results[1].raised <=> Len(stripped) > MAX_PROMPT_CHARS
        /\ (Len(stripped) <= MAX_PROMPT_CHARS /\ ~HasPhrase(stripped)) =>
             results[1] = Returned(stripped)

\* C11 amended: sanitize_prompt fails with the too-long error iff the
\* NUL-stripped text is longer than the maximum (a text within the maximum can
\* still fail, for a denylisted phrase), and returns exactly the NUL-stripped
\* text when that text is within the maximum and holds no denylisted phrase.
C11_LengthAfterStripping ==
  results # <<>> =>
    LET stripped == RemoveChar(arg, NUL)
    IN  /\ results[1] = TooLong <=> Len(stripped) > MAX_PROMPT_CHARS
        /\ (Len(stripped) <= MAX_PROMPT_CHARS /\ ~HasPhrase(stripped)) =>
             results[1] = Returned(stripped)

\* C11 witness: a text longer than the maximum only by its NUL bytes has been
\* accepted, and what came back is the text without them.
C11_Witness ==
  /\ results # <<>>
  /\ Len(arg) > MAX_PROMPT_CHARS
  /\ Len(RemoveChar(arg, NUL)) = MAX_PROMPT_CHARS
  /\ ~results[1].raised
  /\ results[1].value = RemoveChar(arg, NUL)
  /\ results[1].value # arg

\* C12: sanitize_prompt rejects every input within the length cap whose
\* NUL-stripped text holds a denylisted phrase as a substring in any letter
\* case, whatever surrounds it: it raises the ValueError that names a phrase
\* the text holds.
C12_PhraseRejected ==
  results # <<>> =>
    LET stripped == RemoveChar(arg, NUL)
    IN  (Len(stripped) <= MAX_PROMPT_CHARS /\ HasPhrase(stripped)) =>
          /\ results[1].raised
          /\ results[1].type = "ValueError"
          /\ results[1].msg[1] = Lit("Prompt contains dangerous pattern: ")
          /\ \E k \in 1..Len(dangerous_patterns) :
               /\ results[1].msg[2] = Txt(dangerous_patterns[k])
               /\ Contains(Lower(stripped), dangerous_patterns[k])

\* C12 witness: a prompt of the maximum length has been rejected whose phrase is
\* inside other text, not in lower case, and contiguous only once the NUL bytes
\* are removed.
C12_Witness ==
  /\ results # <<>>
  /\ results[1].raised
  /\ results[1].msg[1] = Lit("Prompt contains dangerous pattern: ")
  /\ Len(RemoveChar(arg, NUL)) = MAX_PROMPT_CHARS
  /\ ~HasPhrase(arg)
  /\ ~\E k \in 1..Len(dangerous_patterns) : Contains(RemoveChar(arg, NUL), dangerous_patterns[k])

\* C13: redact_secrets is idempotent: applied to its own result it returns that
\* result unchanged, redact(redact(x)) = redact(x).
C13_RedactIdempotent ==
  Len(results) > 1 => results[Len(results)] = results[1]

\* C13 witness: a text with a secret assignment and an e-mail address has been
\* redacted twice; the first pass changed it.
C13_Witness ==
  /\ Len(results) > 1
  /\ results[1] # arg
  /\ Contains(results[1], EMAIL)
  /\ Contains(results[1], PASSWORD_REDACTED)

\* C14: the thread whose agent invocation is running never holds the session
\* lock, so that a concurrent request waiting at the session check for another
\* identity, one with no entry, can pass it at once and go on to its own
\* invocation.
C14_LockFreeWhileRunning ==
  \A t \in Threads :
    pc[t] = "running" =>
      /\ session_lock # t
      /\ \A s \in Threads \ {t} :
           pc[s] = "sess_lock" =>
             \A u \in Users \ DOMAIN active_sessions :
               ENABLED (SessCheck(s, u) /\ pc'[s] = "sess_mark")

\* C14 witness: two agent invocations are running at once, for different
\* identities, the session lock free.
C14_Witness ==
  \E t1, t2 \in Threads :
    /\ pc[t1] = "running" /\ pc[t2] = "running"
    /\ user_id[t1] # user_id[t2]
    /\ session_lock = NoThread

\* C15: no thread holds the limiter lock and the session lock at once, and no
\* state is a deadlock on the two locks: a thread that holds a lock is inside
\* that lock's critical section, waits for nothing, and its next step, the one
\* that releases the lock or leads to the release, is enabled.
C15_NoNestingNoDeadlock ==
  \A t \in Threads :
    /\ ~(lock = t /\ session_lock = t)
    /\ lock = t =>
         /\ pc[t] \in {"lim_check", "lim_append"}
         /\ ENABLED (LimCheck(t) \/ LimAppend(t))
    /\ session_lock = t =>
         /\ pc[t] = "sess_mark"
         /\ ENABLED SessMark(t)

\* C15 witness: both locks are held, by two threads, while the limiter lock's
\* holder has a timestamp to append.
C15_Witness ==
  \E t1, t2 \in Threads :
    /\ t1 # t2
    /\ lock = t1 /\ pc[t1] = "lim_append"
    /\ session_lock = t2

\* the calls is_allowed has answered true at a time from w up to, not
\* including, w + WINDOW_SECONDS: those logged and those not yet back at the
\* caller
AdmittedIn(w) ==
  Cardinality({k \in 1..Len(log) :
                 log[k].ok /\ log[k].at >= w /\ log[k].at < w + WINDOW_SECONDS})
  + Cardinality({t \in Threads :
                   /\ pc[t] = "lim_ret" /\ allowed[t]
                   /\ lnow[t] >= w /\ lnow[t] < w + WINDOW_SECONDS})

\* C16: under every interleaving of concurrent is_allowed calls at most one
\* thread is between its prune and its append or rejection, no window of
\* WINDOW_SECONDS holds more than max_requests recorded timestamps, and no
\* window holds the times of more than max_requests calls answered true.
C16_AtomicWindowBound ==
  /\ \A t1, t2 \in Threads :
       (pc[t1] \in {"lim_check", "lim_append"} /\ pc[t2] \in {"lim_check", "lim_append"})
         => t1 = t2
  /\ \A w \in 0..now :
       /\ Cardinality({i \in 1..Len(requests) :
                         requests[i] >= w /\ requests[i] < w + WINDOW_SECONDS}) <= max_requests
       /\ AdmittedIn(w) <= max_requests

\* C16 witness: two calls made at once, at the same time of day, have been
\* answered, one true and filling the window, the other false.
C16_Witness ==
  \E t1, t2 \in Threads :
    /\ pc[t1] = "lim_ret" /\ allowed[t1]
    /\ pc[t2] = "lim_ret" /\ ~allowed[t2]
    /\ lnow[t1] = lnow[t2]
    /\ Len(requests) = max_requests
    /\ AdmittedIn(lnow[t1]) = max_requests

\* C17 as claimed: each is_allowed call at time now removes exactly the
\* recorded timestamps strictly older than now - WINDOW_SECONDS (one aged exactly
\* WINDOW_SECONDS is kept), then returns false recording nothing if at least
\* max_requests remain, and otherwise records now and returns true.
C17_PruneStrictlyOlder ==
  [][\A t \in Threads :
       /\ (pc[t] = "lim_lock" /\ pc'[t] = "lim_check") =>
            requests' = SelectSeq(requests, LAMBDA x : ~(x < now - WINDOW_SECONDS))
       /\ (pc[t] = "lim_check" /\ pc'[t] = "lim_ret") =>
            /\ Len(requests) >= max_requests
            /\ ~allowed'[t]
            /\ requests' = requests
       /\ (pc[t] = "lim_check" /\ pc'[t] = "lim_append") =>
            Len(requests) < max_requests
       /\ (pc[t] = "lim_append" /\ pc'[t] = "lim_ret") =>
            /\ requests' = Append(requests, lnow[t])
            /\ allowed'[t]]_vars

\* the agent's output of line 101, redacted, for each behaviour of the agent
SafeOutput ==
  [agent \in AgentRuns |->
     redact_secrets(OutputOf([stdout |-> agent.stdout, stderr |-> agent.stderr]))]

\* The stages a request has run, read off its state: an argument is read by the
\* stage that uses it, the agent's behaviour is set when subprocess.run ends,
\* and a result with success is built after the redaction and the estimate.
LimiterPassed(t) == slots[t] > 0 /\ pc[t] \notin {"lim_lock", "lim_check", "lim_append", "lim_ret"}
BudgetRan(t) == budget[t] # 0
SessionRan(t) == user_id[t] # ""
SanitizeRan(t) == prompt[t] # 0
ExecuteRan(t) == outcome[t] # NoAgent
RedactRan(t) == ret[t].success

\* C18 as claimed: a request passes the stages in the order limiter gate, budget
\* check, session acquire, sanitize, execute, redact, estimate cost, and each of
\* them runs only if every earlier one ran and passed (the agent was launched,
\* ended within the deadline and exited with status 0, for the execute stage);
\* the release runs for every request that acquired the session, as the last
\* stage before the return; a Success carries the redacted output and the cost
\* computed from the redacted text.
C18_StageOrder ==
  \A t \in Threads :
    /\ BudgetRan(t) => LimiterPassed(t)
    /\ SessionRan(t) => (BudgetRan(t) /\ budget[t] <= MAX_BUDGET_USD)
    /\ SanitizeRan(t) =>
         /\ SessionRan(t)
         /\ pc[t] \in {"running", "finally", "done"}
         /\ pc[t] \in {"running", "finally"} => owner[user_id[t]] = t
         /\ ret[t] # BusyResult
    /\ (ExecuteRan(t) \/ pc[t] = "running") =>
         (SanitizeRan(t) /\ ~Sanitized[prompt[t]].raised)
    /\ RedactRan(t) =>
         /\ ExecuteRan(t)
         /\ ~outcome[t].launch_fails
         /\ outcome[t].duration <= SESSION_TIMEOUT_SECONDS
         /\ outcome[t].returncode = 0
         /\ ret[t].response = SafeOutput[outcome[t]]
         /\ ret[t].cost = estimate_cost(ret[t].response)
         /\ pc[t] \in {"finally", "done"}
    /\ pc[t] = "done" =>
         /\ \A u \in DOMAIN owner : owner[u] # t
         /\ (SessionRan(t) /\ ret[t] # BusyResult) => SanitizeRan(t)


\* C19: an entry of active_sessions is removed only by the request that
\* inserted it, in its finally block; the step in which a request returns
\* rate-limited, budget-exceeded or session-busy is taken before any insert by
\* that request and leaves active_sessions unchanged.
C19_OnlyOwnerRemoves ==
  [][/\ \A u \in DOMAIN active_sessions :
          u \notin DOMAIN active_sessions' =>
            /\ pc[owner[u]] = "finally" /\ pc'[owner[u]] = "done"
            /\ user_id[owner[u]] = u
     /\ \A t \in Threads :
          (pc[t] # "done" /\ pc'[t] = "done"
             /\ ReasonOf(ret'[t]) \in {"RateLimited", "BudgetExceeded", "SessionBusy"}) =>
            /\ pc[t] \in {"lim_ret", "sess_lock"}
            /\ active_sessions' = active_sessions
            /\ \A u \in DOMAIN owner : owner[u] # t]_vars

\* C19 witness: a request has come back session-busy and the entry of the
\* request still running for that identity is in place, with its owner.
C19_Witness ==
  \E t1, t2 \in Threads :
    /\ pc[t2] = "done" /\ ret[t2] = BusyResult
    /\ pc[t1] = "running" /\ user_id[t1] = user_id[t2]
    /\ HasSession(active_sessions, user_id[t1])
    /\ owner[user_id[t1]] = t1


\* C20: the agent is invoked at most once in a request, never again once an
\* invocation has ended, whatever its result; and only by a request that the
\* limiter admitted, whose budget passed the check, that holds its identity's
\* session, and whose prompt the sanitizer passed; the command carries the
\* sanitizer's output, the prompt without its NUL bytes, and the budget.
C20_InvokedOnceWhenCleared ==
  [][\A t \in Threads :
       /\ (pc[t] # "running" /\ pc'[t] = "running") =>
            LET stripped == RemoveChar(Prompts[prompt'[t]], NUL)
            IN  /\ ~ExecuteRan(t)
                /\ slots[t] > 0
                /\ BudgetRan(t) /\ budget[t] <= MAX_BUDGET_USD
                /\ HasSession(active_sessions, user_id[t])
                /\ owner[user_id[t]] = t
                /\ Len(stripped) <= MAX_PROMPT_CHARS /\ ~HasPhrase(stripped)
                /\ cmd'[t].prompt = stripped
                /\ cmd'[t].prompt = Sanitized[prompt'[t]].value
                /\ cmd'[t].budget = budget[t]
       /\ ExecuteRan(t)' => (pc'[t] \in {"finally", "done"} /\ cmd'[t] = NoCmd)
       /\ pc'[t] # "running" => cmd'[t] = NoCmd]_vars

\* C20 witness: an invocation is running whose command carries the prompt
\* without the NUL bytes the caller sent, for a request that holds its session.
C20_Witness ==
  \E t \in Threads :
    /\ pc[t] = "running"
    /\ cmd[t].prompt # Prompts[prompt[t]]
    /\ cmd[t].prompt = RemoveChar(Prompts[prompt[t]], NUL)
    /\ owner[user_id[t]] = t
    /\ slots[t] > 0

====
